---- MODULE Spec2Model ----
(***************************************************************************)
(* Model of llm-chain's Parameters (crates/llm-chain/src/parameters.rs):   *)
(* a BTreeMap<String, Box<dyn ParamFull>> with copy-on-write derivation,   *)
(* merge, value-based equality and the projection to a tera::Context.      *)
(*                                                                         *)
(* Every live Parameters value is an object of the heap `stores`; a        *)
(* derivation allocates the object it returns.  Object identity is kept    *)
(* explicit so that "the receiver is left untouched" is a property of the  *)
(* code (Clone builds a new map) and not of the notation.                  *)
(***************************************************************************)
EXTENDS Integers, Sequences, FiniteSets

\* ------------------------------------------------------------------ bounds
MaxStores == 3          \* live Parameters values
MaxLen == 2             \* length of the pair sequence given to from_seq

\* ------------------------------------------------------------- universes
TEXT_KEY == "text"
\* keys in the order BTreeMap<String, _> iterates them (lexical)
KeyOrder == <<"n", "text">>
Keys == {KeyOrder[x] : x \in DOMAIN KeyOrder}
Texts == {"1", "2"}
Nums == {1}

\* -------------------------------------------------------------- Option<T>
None == [tag |-> "None"]
Some(v) == [tag |-> "Some", val |-> v]

\* ------------------------------------------------------------ Value cells
\* StringParam::new
StringParam_new(value) == [kind |-> "StringParam", value |-> value]

\* a caller-supplied payload implementing Param: a number that renders as
\* its decimal text
NumParam_new(n) == [kind |-> "NumParam", n |-> n]

Digits == <<"1", "2", "3">>

\* Param::get of the payload behind the Box
Param_get(cell) ==
    IF cell.kind = "StringParam" THEN cell.value ELSE Digits[cell.n]

\* ParamFull::boxed_clone: Box::new(self.clone())
boxed_clone(cell) ==
    IF cell.kind = "StringParam"
    THEN [kind |-> "StringParam", value |-> cell.value]
    ELSE [kind |-> "NumParam", n |-> cell.n]

StringCells == {StringParam_new(t) : t \in Texts}
DynCells == {NumParam_new(n) : n \in Nums}

\* ------------------------------------------------------- BTreeMap<String,_>
Map_new == [k \in {} |-> None]

\* BTreeMap::insert: the cell under an existing key is replaced
Map_insert(m, key, cell) ==
    [k \in (DOMAIN m) \cup {key} |-> IF k = key THEN cell ELSE m[k]]

\* BTreeMap::get
Map_get(m, key) == IF key \in DOMAIN m THEN Some(m[key]) ELSE None

\* BTreeMap::iter: the keys of m in key order
Map_iter(m) == SelectSeq(KeyOrder, LAMBDA k : k \in DOMAIN m)

\* ------------------------------------------------------------- Parameters
RECURSIVE insert_clones(_, _, _)
\* for (key, value) in src.iter() { map.insert(key.clone(), value.boxed_clone()) }
insert_clones(map, src, ks) ==
    IF ks = <<>> THEN map
    ELSE insert_clones(Map_insert(map, Head(ks), boxed_clone(src[Head(ks)])),
                       src, Tail(ks))

\* the map built by impl Clone for Parameters
clone_map(m) == insert_clones(Map_new, m, Map_iter(m))

\* a heap with one more object, and the reference to it
Alloc(h, m) == [heap |-> Append(h, m), ref |-> Len(h) + 1]

\* a plausible slip: the "copy" is a second handle on the receiver's map
clone_shared(h, i) == [heap |-> h, ref |-> i]

\* impl Clone for Parameters
clone(h, i) == Alloc(h, clone_map(h[i]))

\* copy.map.insert(key, cell) on the object r of heap h
insert(h, r, key, cell) == [h EXCEPT ![r] = Map_insert(@, key, cell)]

\* Parameters::new
new(h) == Alloc(h, Map_new)

\* Parameters::new_with_text
new_with_text(h, text) ==
    Alloc(h, Map_insert(Map_new, TEXT_KEY, StringParam_new(text)))

\* a slip: the pair is inserted into a map that is then not returned
with_no_insert(h, i, key, value) == clone(h, i)

\* a slip: the pair is inserted into a new map instead of the copy
with_fresh(h, i, key, value) ==
    Alloc(h, Map_insert(Map_new, key, StringParam_new(value)))

\* Parameters::with
with(h, i, key, value) ==
    LET copy == clone(h, i)
    IN  [heap |-> insert(copy.heap, copy.ref, key, StringParam_new(value)),
         ref |-> copy.ref]

\* Parameters::with_dynamic
with_dynamic(h, i, key, value) ==
    LET copy == clone(h, i)
    IN  [heap |-> insert(copy.heap, copy.ref, key, boxed_clone(value)),
         ref |-> copy.ref]

\* Parameters::with_text
with_text(h, i, text) == with(h, i, TEXT_KEY, text)

\* a slip: a missing key renders as the empty text (unwrap_or_default)
get_or_default(m, key) ==
    LET param == Map_get(m, key)
    IN  IF param.tag = "None" THEN Some("") ELSE Some(Param_get(param.val))

\* Parameters::get
get(m, key) ==
    LET param == Map_get(m, key)
    IN  IF param.tag = "None" THEN None ELSE Some(Param_get(param.val))

\* Parameters::get_text
get_text(m) == get(m, TEXT_KEY)

\* a slip: the entries of other are inserted only where the key is new
combine_left(h, i, j) ==
    LET copy == clone(h, i)
        other == copy.heap[j]
        fresh == SelectSeq(Map_iter(other), LAMBDA k : k \notin DOMAIN copy.heap[copy.ref])
    IN  [heap |-> [copy.heap EXCEPT ![copy.ref] = insert_clones(@, other, fresh)],
         ref |-> copy.ref]

\* Parameters::combine
combine(h, i, j) ==
    LET copy == clone(h, i)
        other == copy.heap[j]
    IN  [heap |-> [copy.heap EXCEPT
                     ![copy.ref] = insert_clones(@, other, Map_iter(other))],
         ref |-> copy.ref]

\* a slip: the output is ignored
with_text_from_output_clone(h, i, output) == clone(h, i)

\* Parameters::with_text_from_output, from the point where the awaited
\* primary_textual_output() has yielded `output`.  map_or evaluates its
\* default, self.clone(), before it looks at the Option; when the Option is
\* Some the default is dropped.
with_text_from_output(h, i, output) ==
    LET default == clone(h, i)
    IN  IF output.tag = "None" THEN default ELSE with_text(h, i, output.val)

\* a slip: the cells are compared as payloads (a derived PartialEq)
eq_payload(a, b) ==
    /\ Cardinality(DOMAIN a) = Cardinality(DOMAIN b)
    /\ \A k \in DOMAIN a :
           IF k \in DOMAIN b
           THEN /\ a[k].kind = b[k].kind
                /\ IF a[k].kind = "StringParam" THEN a[k].value = b[k].value
                                                ELSE a[k].n = b[k].n
           ELSE FALSE

\* a slip: the entries are compared without comparing the sizes
eq_no_len(a, b) ==
    \A k \in DOMAIN a :
        IF k \in DOMAIN b THEN Param_get(a[k]) = Param_get(b[k]) ELSE FALSE

\* impl PartialEq for Parameters
eq(a, b) ==
    /\ Cardinality(DOMAIN a) = Cardinality(DOMAIN b)
    /\ \A k \in DOMAIN a :
           LET other_v == Map_get(b, k)
           IN  IF other_v.tag = "Some"
               THEN Param_get(a[k]) = Param_get(other_v.val)
               ELSE FALSE

\* tera::Context::new and Context::insert(key, &String): the value is
\* serialised to a JSON string
Context_new == [k \in {} |-> None]
Context_insert(context, key, text) ==
    [k \in (DOMAIN context) \cup {key} |->
        IF k = key THEN [json |-> "String", s |-> text] ELSE context[k]]

RECURSIVE tera_inserts(_, _, _)
\* for (key, value) in self.map.iter() { context.insert(key, &value.get()) }
tera_inserts(context, m, ks) ==
    IF ks = <<>> THEN context
    ELSE tera_inserts(Context_insert(context, Head(ks), Param_get(m[Head(ks)])),
                      m, Tail(ks))

\* a slip: the loop stops after the first entry
to_tera_first(m) ==
    IF Map_iter(m) = <<>> THEN Context_new
    ELSE Context_insert(Context_new, Head(Map_iter(m)),
                        Param_get(m[Head(Map_iter(m))]))

\* Parameters::to_tera
to_tera(m) == tera_inserts(Context_new, m, Map_iter(m))

RECURSIVE from_seq_map(_, _)
\* for (k, v) in m.into_iter() { map.insert(k.into(), Box::new(StringParam::new(v.into()))) }
from_seq_map(map, m) ==
    IF m = <<>> THEN map
    ELSE from_seq_map(Map_insert(map, Head(m)[1], StringParam_new(Head(m)[2])),
                      Tail(m))

RECURSIVE from_seq_first(_, _)
\* a slip: an entry already present is kept (entry().or_insert)
from_seq_first(map, m) ==
    IF m = <<>> THEN map
    ELSE from_seq_first(IF Head(m)[1] \in DOMAIN map THEN map
                        ELSE Map_insert(map, Head(m)[1], StringParam_new(Head(m)[2])),
                        Tail(m))

from_seq_keep_first(h, m) == Alloc(h, from_seq_first(Map_new, m))

\* Parameters::from_seq
from_seq(h, m) == Alloc(h, from_seq_map(Map_new, m))

\* the pair sequences handed to From<Vec<(&str, &str)>>
Pairs == Keys \X Texts
PairSeqs == UNION {[1..n -> Pairs] : n \in 0..MaxLen}
\* ------------------------------------------------------------ the program
VARIABLES
    stores,     \* the live Parameters values: stores[i] is the map of object i
    made,       \* made[i]: the map object i held when it was returned
    parent,     \* parent[i]: the receiver object i was derived from, 0 if none
    pending,    \* the with_text_from_output call suspended at its .await
    last        \* the last call: its arguments and what it returned

vars == <<stores, made, parent, pending, last>>

Refs == 1..Len(stores)
Room == Len(stores) < MaxStores

\* the caller keeps the returned object; objects that existed keep their record
Returned(r, from) ==
    /\ stores' = r.heap
    /\ made' = [x \in DOMAIN r.heap |-> IF x \in DOMAIN made THEN made[x] ELSE r.heap[x]]
    /\ parent' = [x \in DOMAIN r.heap |-> IF x \in DOMAIN parent THEN parent[x] ELSE from]

Init ==
    /\ stores = <<>>
    /\ made = <<>>
    /\ parent = <<>>
    /\ pending = None
    /\ last = [op |-> "init"]

New ==
    /\ Room
    /\ LET r == new(stores)
       IN  /\ Returned(r, 0)
           /\ last' = [op |-> "new", res |-> r.ref]
    /\ UNCHANGED pending

NewWithText ==
    \E text \in Texts :
        /\ Room
        /\ LET r == new_with_text(stores, text)
           IN  /\ Returned(r, 0)
               /\ last' = [op |-> "new_with_text", text |-> text, res |-> r.ref]
        /\ UNCHANGED pending

FromSeq ==
    \E m \in PairSeqs :
        /\ Room
        /\ LET r == from_seq(stores, m)
           IN  /\ Returned(r, 0)
               /\ last' = [op |-> "from_seq", seq |-> m, res |-> r.ref]
        /\ UNCHANGED pending

Clone ==
    \E i \in Refs :
        /\ Room
        /\ LET r == clone(stores, i)
           IN  /\ Returned(r, i)
               /\ last' = [op |-> "clone", self |-> i, pre |-> stores[i], res |-> r.ref]
        /\ UNCHANGED pending

With ==
    \E i \in Refs, key \in Keys, value \in Texts :
        /\ Room
        /\ LET r == with(stores, i, key, value)
           IN  /\ Returned(r, i)
               /\ last' = [op |-> "with", self |-> i, pre |-> stores[i],
                           key |-> key, value |-> value, res |-> r.ref]
        /\ UNCHANGED pending

WithDynamic ==
    \E i \in Refs, key \in Keys, value \in DynCells :
        /\ Room
        /\ LET r == with_dynamic(stores, i, key, value)
           IN  /\ Returned(r, i)
               /\ last' = [op |-> "with_dynamic", self |-> i, pre |-> stores[i],
                           key |-> key, value |-> value, res |-> r.ref]
        /\ UNCHANGED pending

WithText ==
    \E i \in Refs, text \in Texts :
        /\ Room
        /\ LET r == with_text(stores, i, text)
           IN  /\ Returned(r, i)
               /\ last' = [op |-> "with_text", self |-> i, pre |-> stores[i],
                           text |-> text, res |-> r.ref]
        /\ UNCHANGED pending

Combine ==
    \E i \in Refs, j \in Refs :
        /\ Room
        /\ LET r == combine(stores, i, j)
           IN  /\ Returned(r, i)
               /\ last' = [op |-> "combine", self |-> i, other |-> j,
                           pre |-> stores[i], preOther |-> stores[j], res |-> r.ref]
        /\ UNCHANGED pending

\* with_text_from_output up to its .await: &self is borrowed, nothing is built
\* (one call in flight at a time; other callers go on deriving from self)
AwaitOutput ==
    \E i \in Refs :
        /\ pending = None
        /\ pending' = Some([self |-> i, pre |-> stores[i]])
        /\ last' = [op |-> "await", self |-> i]
        /\ UNCHANGED <<stores, made, parent>>

\* the provider yields Some(text) or None and the call runs to its return
OutputYields ==
    \E output \in {None} \cup {Some(t) : t \in Texts} :
        /\ pending # None
        /\ Room
        /\ LET i == pending.val.self
               r == with_text_from_output(stores, i, output)
           IN  /\ Returned(r, i)
               /\ last' = [op |-> "with_text_from_output", self |-> i,
                           pre |-> pending.val.pre, output |-> output, res |-> r.ref]
        /\ pending' = None

\* the future is dropped while suspended: no Parameters is returned
Cancel ==
    /\ pending # None
    /\ pending' = None
    /\ last' = [op |-> "cancelled", self |-> pending.val.self, pre |-> pending.val.pre]
    /\ UNCHANGED <<stores, made, parent>>

Get ==
    \E i \in Refs, key \in Keys :
        /\ last' = [op |-> "get", self |-> i, key |-> key, res |-> get(stores[i], key)]
        /\ UNCHANGED <<stores, made, parent, pending>>

GetText ==
    \E i \in Refs :
        /\ last' = [op |-> "get_text", self |-> i, res |-> get_text(stores[i])]
        /\ UNCHANGED <<stores, made, parent, pending>>

Eq ==
    \E i \in Refs, j \in Refs :
        /\ last' = [op |-> "eq", self |-> i, other |-> j,
                    res |-> eq(stores[i], stores[j])]
        /\ UNCHANGED <<stores, made, parent, pending>>

ToTera ==
    \E i \in Refs :
        /\ last' = [op |-> "to_tera", self |-> i, pre |-> stores[i],
                    res |-> to_tera(stores[i])]
        /\ UNCHANGED <<stores, made, parent, pending>>

\* ---------------------------------------------------------- specifications
\* Derivation: stores are constructed empty or from a text and derived from
\* one another; one with_text_from_output call may be suspended meanwhile.
Next ==
    \/ New
    \/ NewWithText
    \/ Clone
    \/ With
    \/ WithDynamic
    \/ WithText
    \/ Combine
    \/ AwaitOutput
    \/ OutputYields
    \/ Cancel

Spec == Init /\ [][Next]_vars

\* Construction: the constructors, from_seq on every pair sequence up to MaxLen.
NextSeq ==
    \/ New
    \/ NewWithText
    \/ FromSeq

SpecSeq == Init /\ [][NextSeq]_vars

\* Accessors: get, get_text, == and to_tera are functions of their operands;
\* the operands are any two stores over Keys and the cells.
Cells == StringCells \cup DynCells
AllMaps == UNION {[D -> Cells] : D \in SUBSET Keys}

InitRead ==
    /\ stores \in [1..2 -> AllMaps]
    /\ made = stores
    /\ parent = [x \in 1..2 |-> 0]
    /\ pending = None
    /\ last = [op |-> "init"]

NextRead ==
    \/ Get
    \/ GetText
    \/ Eq
    \/ ToTera

SpecRead == InitRead /\ [][NextRead]_vars

\* ------------------------------------------------------------- properties
\* the object a call returned
Res(r) == r.heap[r.ref]

\* two maps a caller cannot tell apart: same keys, same get on every key
Same(a, b) ==
    /\ DOMAIN a = DOMAIN b
    /\ \A k \in Keys : get(a, k) = get(b, k)
\* C1: derivation independence.  Whatever has been derived since, from it or
\* from stores derived from it, every store still has the key set and the
\* get(k) of every key it had when it was returned; so p2 = p1.with(k, v)
\* keeps p2.get(k) under later derivations from p1, and p1 keeps p1.get(k)
\* under later derivations from p2.
C1_DerivationIndependence ==
    \A i \in Refs : Same(stores[i], made[i])

\* p2 = p1.with(k, v) with a new value for k, then p3 derived from p1 with yet
\* another value for k
C1_Witness ==
    /\ Len(stores) = 3
    /\ parent[2] = 1
    /\ last.op = "with" /\ last.self = 1 /\ last.res = 3
    /\ get(stores[1], last.key) = None
    /\ get(stores[2], last.key) # None
    /\ get(stores[2], last.key) # get(stores[3], last.key)

\* C2: p.with(k, v).get(k) == Some(v) whether or not k was a key of p; the
\* result has one entry per key of p and k (an existing key's cell is replaced,
\* not duplicated).
C2_WithThenGet ==
    last.op = "with" =>
        /\ get(stores[last.res], last.key) = Some(last.value)
        /\ Len(Map_iter(stores[last.res]))
             = Cardinality(DOMAIN last.pre \cup {last.key})

\* with on a key the receiver holds with another value
C2_Witness ==
    /\ last.op = "with"
    /\ last.key \in DOMAIN last.pre
    /\ get(last.pre, last.key) # Some(last.value)

\* C3: an insert leaves the other keys alone.  p.with_text(t).get(k) == p.get(k)
\* for every k other than "text"; p.with(k0, v) has the get(k) of p on every
\* k # k0 and no keys besides those of p and k0.
C3_UnrelatedKeys ==
    /\ last.op = "with_text" =>
           \A k \in Keys \ {TEXT_KEY} :
               get(stores[last.res], k) = get(last.pre, k)
    /\ last.op = "with" =>
           /\ \A k \in Keys \ {last.key} :
                  get(stores[last.res], k) = get(last.pre, k)
           /\ DOMAIN stores[last.res] \subseteq DOMAIN last.pre \cup {last.key}

\* with_text on a store that holds another key and another text
C3_Witness ==
    /\ last.op = "with_text"
    /\ \E k \in DOMAIN last.pre : k # TEXT_KEY
    /\ get_text(last.pre) # None
    /\ get_text(last.pre) # Some(last.text)

\* C4: combine is the right-biased key-wise union.  p.combine(q).get(k) is
\* q.get(k) on the keys of q, p.get(k) on the keys of p only, None on the
\* others; so from_text("x").combine(from_text("y")).get_text() == Some("y").
C4_CombineRightBiased ==
    last.op = "combine" =>
        \A k \in Keys :
            get(stores[last.res], k) =
                IF k \in DOMAIN last.preOther THEN get(last.preOther, k)
                ELSE IF k \in DOMAIN last.pre THEN get(last.pre, k)
                ELSE None

\* from_text("1").combine(from_text("2"))
C4_Witness ==
    /\ last.op = "combine"
    /\ last.pre = Res(new_with_text(<<>>, "1"))
    /\ last.preOther = Res(new_with_text(<<>>, "2"))
    /\ get_text(stores[last.res]) = Some("2")

\* C5: a == b exactly when a and b have the same key set and the same get(k)
\* on every key; the relation is symmetric although only the left operand's
\* entries are iterated.
C5_EqIsSameKeysSameValues ==
    last.op = "eq" =>
        /\ last.res <=> Same(stores[last.self], stores[last.other])
        /\ last.res <=> eq(stores[last.other], stores[last.self])

\* the left operand's entries all match but the right operand has one more key
C5_Witness ==
    /\ last.op = "eq"
    /\ ~last.res
    /\ DOMAIN stores[last.self] # {}
    /\ DOMAIN stores[last.self] # DOMAIN stores[last.other]
    /\ \A k \in DOMAIN stores[last.self] :
           /\ k \in DOMAIN stores[last.other]
           /\ get(stores[last.self], k) = get(stores[last.other], k)

\* C6: with_text_from_output.  When the provider yields t the returned store
\* equals self.with_text(t); when it yields nothing the returned store has the
\* keys and the get(k) of self; and self is as it was at the call while the
\* call is suspended, when it returns and when it is cancelled.
C6_WithTextFromOutput ==
    /\ pending # None => Same(stores[pending.val.self], pending.val.pre)
    /\ last.op = "cancelled" => Same(stores[last.self], last.pre)
    /\ last.op = "with_text_from_output" =>
           /\ Same(stores[last.self], last.pre)
           /\ IF last.output = None
              THEN Same(stores[last.res], last.pre)
              ELSE eq(stores[last.res],
                      Res(with_text(<<last.pre>>, 1, last.output.val)))

\* the provider yields nothing for a store that has a text, after another
\* store was derived from it while the call was suspended
C6_Witness ==
    /\ last.op = "with_text_from_output"
    /\ last.output = None
    /\ get_text(last.pre) # None
    /\ get_text(stores[last.res]) = get_text(last.pre)
    /\ \E i \in Refs : i < last.res /\ i > last.self /\ parent[i] = last.self
                         /\ ~Same(stores[i], last.pre)

\* the index of the last pair of seq that carries key k
LastIndex(seq, k) ==
    CHOOSE x \in DOMAIN seq :
        /\ seq[x][1] = k
        /\ \A y \in DOMAIN seq : seq[y][1] = k => y <= x

\* C7: the store built from a sequence of pairs has exactly the keys that occur
\* in the sequence, and get(key) is the value of the last pair with that key.
C7_FromSeqLastWins ==
    last.op = "from_seq" =>
        /\ DOMAIN stores[last.res] = {last.seq[x][1] : x \in DOMAIN last.seq}
        /\ \A k \in DOMAIN stores[last.res] :
               get(stores[last.res], k) = Some(last.seq[LastIndex(last.seq, k)][2])

\* two pairs with the same key and different values
C7_Witness ==
    /\ last.op = "from_seq"
    /\ Len(last.seq) >= 2
    /\ last.seq[1][1] = last.seq[2][1]
    /\ last.seq[1][2] # last.seq[2][2]
    /\ get(stores[last.res], last.seq[1][1]) = Some(last.seq[2][2])

\* C8: equality ignores the payload representation.  For every p, string s and
\* custom payload c, p.with("n", s) == p.with_dynamic("n", c) exactly when c
\* renders to s; and p.with_dynamic(k, c).get(k) == Some(c.render()).
C8_EqIgnoresRepresentation ==
    /\ last.op = "eq" =>
           \A p \in AllMaps, s \in Texts, c \in DynCells :
               (/\ stores[last.self] = Res(with(<<p>>, 1, "n", s))
                /\ stores[last.other] = Res(with_dynamic(<<p>>, 1, "n", c)))
               => (last.res <=> Param_get(c) = s)
    /\ last.op = "get" =>
           \A p \in AllMaps, c \in DynCells :
               stores[last.self] = Res(with_dynamic(<<p>>, 1, last.key, c))
               => last.res = Some(Param_get(c))

\* a literal "1" and a NumParam 1 under "n" compare equal
C8_Witness ==
    /\ last.op = "eq"
    /\ last.res
    /\ \E p \in AllMaps, s \in Texts, c \in DynCells :
           /\ stores[last.self] = Res(with(<<p>>, 1, "n", s))
           /\ stores[last.other] = Res(with_dynamic(<<p>>, 1, "n", c))
           /\ TEXT_KEY \in DOMAIN p

\* C9: get never fails.  p.get(k) is Some(the rendered text of the cell at k)
\* when k is a key of p and None when it is not; the empty store has None for
\* every key; get_text() is get("text").
C9_GetTotal ==
    /\ last.op = "get" =>
           /\ last.res = IF last.key \in DOMAIN stores[last.self]
                         THEN Some(Param_get(stores[last.self][last.key]))
                         ELSE None
           /\ stores[last.self] = Res(new(<<>>)) => last.res = None
    /\ last.op = "get_text" =>
           last.res = IF TEXT_KEY \in DOMAIN stores[last.self]
                      THEN Some(Param_get(stores[last.self][TEXT_KEY]))
                      ELSE None

\* get of a missing key on a store that has another key
C9_Witness ==
    /\ last.op = "get"
    /\ last.key \notin DOMAIN stores[last.self]
    /\ DOMAIN stores[last.self] # {}
    /\ last.res = None

\* C10: the context to_tera builds maps every key k of p to the string
\* p.get(k), has no other key, holds strings whatever the payload type, and p
\* is as it was.
C10_ToTera ==
    last.op = "to_tera" =>
        /\ DOMAIN last.res = DOMAIN last.pre
        /\ \A k \in DOMAIN last.pre :
               /\ last.res[k].json = "String"
               /\ Some(last.res[k].s) = get(last.pre, k)
        /\ Same(stores[last.self], last.pre)

\* the projection of a store with a text cell and a NumParam cell
C10_Witness ==
    /\ last.op = "to_tera"
    /\ DOMAIN last.pre = Keys
    /\ \E k \in Keys : last.pre[k].kind = "NumParam"
    /\ \E k \in Keys : last.pre[k].kind = "StringParam"
====
